---- MODULE Spec2Model ----
(***************************************************************************)
(* Model of the memdb transaction engine (nomad/memdb/txn.go).             *)
(*                                                                         *)
(* A MemDB holds a root radix tree that maps an index path to the radix    *)
(* tree of that (table, index), a schema and a writer mutex.  A Txn holds  *)
(* a radix transaction on the root (rootTxn) and, for writers, the open    *)
(* radix transactions of the indexes it touched (modified).                *)
(*                                                                         *)
(* Radix trees are modelled by their contents: a function from the keys    *)
(* that are present to the stored object.  A radix transaction is modelled *)
(* by the contents it would commit.                                        *)
(***************************************************************************)
EXTENDS Integers, Sequences, FiniteSets, TLC

\* ------------------------------------------------------------------ bounds
\* number of transactions created in a behaviour
NumTxn == 2
\* number of transactions begun and Insert/Delete calls made over a
\* behaviour
MaxCalls == 4

\* --------------------------------------------------------------- constants
None == "none"
Missing == "missing"
Bad == "bad"
NUL == "NUL"

\* The objects handed to Insert.  An object is opaque to the transaction;
\* only the indexers look inside it.
Objects == {"A30", "B30", "A31", "Bxx"}

\* The fields of each object: a value, Missing (the indexer reports ok =
\* false) or Bad (the indexer reports an error).
FieldOf == [o \in Objects |->
    CASE o = "A30" -> [id |-> "a", age |-> "30",    email |-> Missing]
      [] o = "B30" -> [id |-> "b", age |-> "30",    email |-> Missing]
      [] o = "A31" -> [id |-> "a", age |-> "31",    email |-> "x"]
      [] o = "Bxx" -> [id |-> "b", age |-> Missing, email |-> Bad]]

\* db.schema: one table, person, with a unique required index id, a
\* non-unique required index age and a unique optional index email.
Schema == [Tables |-> [tb \in {"person"} |-> [Indexes |->
    [n \in {"id", "age", "email"} |->
        CASE n = "id"    -> [Unique |-> TRUE,  AllowMissing |-> FALSE]
          [] n = "age"   -> [Unique |-> FALSE, AllowMissing |-> FALSE]
          [] n = "email" -> [Unique |-> TRUE,  AllowMissing |-> TRUE]]]]]

\* the table and index names and the arguments callers pass
TableNames == {"person", "job"}
IndexNames == {"id", "age", "email", "name"}
ArgLists == {<<"a">>, <<"b">>, <<"30">>, <<"x">>, <<>>}
\* the calls the callers of the model make
InsertTables == [o \in Objects |-> IF o = "A30" THEN TableNames ELSE {"person"}]
Queries == {<<"person", "id", <<"a">> >>, <<"job", "id", <<>> >>}
GetQueries == {<<"person", "age", <<"30">> >>}
DeleteQueries == {<<"person", "id", <<"a">> >>}

Txns == 1..NumTxn

\* ------------------------------------------------------------ the indexers
\* Indexer.FromObject of the index called name: (ok, val, err).  A string
\* field index encodes the value followed by a terminator.
FromObject(name, obj) ==
    LET v == FieldOf[obj][name] IN
    IF v = Bad THEN [ok |-> FALSE, val |-> <<>>, err |-> TRUE]
    ELSE IF v = Missing THEN [ok |-> FALSE, val |-> <<>>, err |-> FALSE]
    ELSE [ok |-> TRUE, val |-> <<v, NUL>>, err |-> FALSE]

\* Indexer.FromArgs: exactly one argument, encoded as FromObject encodes.
FromArgs(args) ==
    IF Len(args) # 1 THEN [val |-> <<>>, err |-> TRUE]
    ELSE [val |-> <<args[1], NUL>>, err |-> FALSE]

\* indexPath(table, index): the key of the index's tree in the root tree
indexPath(table, index) == <<table, ".", index>>

\* tableIndex{table, index}: the key of the modified map
tableIndex(table, index) == [Table |-> table, Index |-> index]

Paths == {indexPath(tb, n) : tb \in DOMAIN Schema.Tables, n \in {"id", "age", "email"}}

\* ------------------------------------------------------------ radix trees
EmptyTree == <<>>

\* iradix Txn.Insert(k, v): k now maps to v, whatever it mapped to before
TreeInsert(tree, k, v) ==
    [x \in (DOMAIN tree) \cup {k} |-> IF x = k THEN v ELSE tree[x]]

\* iradix Txn.Get(k): (value, found)
TreeGet(tree, k) ==
    IF k \in DOMAIN tree THEN [obj |-> tree[k], ok |-> TRUE]
    ELSE [obj |-> None, ok |-> FALSE]

\* a nil *iradix.Txn and a radix transaction on a tree
NilTxn == [nil |-> TRUE]
RootTxn(tree) == [nil |-> FALSE, tree |-> tree]

\* a nil map and a map
NilMap == [nil |-> TRUE]
Map(m) == [nil |-> FALSE, m |-> m]

\* the Txn struct
Txn(w, rt, md) == [write |-> w, rootTxn |-> rt, modified |-> md]

VARIABLES
    root,       \* db.root: index path -> index tree
    writer,     \* db.writer: TRUE when the mutex is locked
    fatal,      \* the runtime stopped the process (unlock of unlocked mutex)
    pc,         \* where each transaction's thread is
    txns,       \* the Txn structs: write, rootTxn, modified
    ops,        \* history: the number of Insert/Delete calls made
    noop,       \* history: the last call that had no effect: an Insert,
                \*          Delete, Commit or Abort made on a transaction
                \*          that was not an open write transaction, or a
                \*          First that an open write transaction made before
                \*          its first Insert and that found nothing
    holders,    \* history: the write transactions between Lock and Unlock
    unlocks,    \* history: the Unlock calls each transaction made
    captured,   \* history: the root each transaction captured at creation
    log,        \* history: the Insert/Delete calls on tables of the schema
                \*          made on each write transaction while it was open
    committed,  \* history: the logs of the committed transactions, in order
    acquired,   \* history: the write transactions in the order in which
                \*          db.writer.Lock() returned to them
    published   \* history: the transactions that updated db.root, in order

vars == <<root, writer, fatal, pc, txns, ops, noop,
          holders, unlocks, captured, log, committed,
          acquired, published>>

hist == <<ops, noop, holders, unlocks, captured, log, committed,
          acquired, published>>

\* NewMemDB: an empty tree at the path of every index of the schema
Init ==
    /\ root = [p \in Paths |-> EmptyTree]
    /\ writer = FALSE
    /\ fatal = FALSE
    /\ pc = [t \in Txns |-> "none"]
    /\ txns = [t \in Txns |-> Txn(FALSE, NilTxn, NilMap)]
    /\ ops = 0
    /\ noop = "none"
    /\ holders = {}
    /\ unlocks = [t \in Txns |-> 0]
    /\ captured = [t \in Txns |-> <<>>]
    /\ log = [t \in Txns |-> <<>>]
    /\ committed = <<>>
    /\ acquired = <<>>
    /\ published = <<>>

\* transactions are numbered in the order they are created
Fresh(t) == pc[t] = "none" /\ \A u \in Txns : u < t => pc[u] # "none"

\* the transactions begun and the Insert/Delete calls made so far
Calls == ops + Cardinality({t \in Txns : pc[t] # "none"})

\* the Txn that db.Txn(w) makes: a radix transaction on the current root
NewTxn(w) == Txn(w, RootTxn(root), NilMap)

\* db.Txn(false): capture the current root, no locking
BeginRead(t) ==
    /\ ~fatal /\ Fresh(t) /\ Calls < MaxCalls
    /\ pc' = [pc EXCEPT ![t] = "ready"]
    /\ txns' = [txns EXCEPT ![t] = NewTxn(FALSE)]
    /\ captured' = [captured EXCEPT ![t] = root]
    /\ UNCHANGED <<root, writer, fatal, ops, noop, holders, unlocks,
                   log, committed,
                   acquired, published>>

\* db.Txn(true) up to db.writer.Lock(): the caller now waits for the mutex
BeginWrite(t) ==
    /\ ~fatal /\ Fresh(t) /\ Calls < MaxCalls
    /\ pc' = [pc EXCEPT ![t] = "waiting"]
    /\ UNCHANGED <<root, writer, fatal, txns, hist>>

\* db.writer.Lock() returns, then the root is captured
AcquireWrite(t) ==
    /\ ~fatal /\ pc[t] = "waiting"
    /\ ~writer
    /\ writer' = TRUE
    /\ holders' = holders \cup {t}
    /\ pc' = [pc EXCEPT ![t] = "ready"]
    /\ txns' = [txns EXCEPT ![t] = NewTxn(TRUE)]
    /\ captured' = [captured EXCEPT ![t] = root]
    /\ acquired' = Append(acquired, t)
    /\ UNCHANGED <<root, fatal, ops, noop, unlocks, log, committed,
                   published>>

\* txn is a write transaction that is neither committed nor aborted
\* (txn.rootTxn is the sentinel)
Open(txn) == txn.write /\ ~txn.rootTxn.nil

\* a call on t for table is logged
Logs(t, table) == Open(txns[t]) /\ table \in DOMAIN Schema.Tables

\* the entries of log
InsertCall(table, obj, ok) ==
    [op |-> "Insert", table |-> table, obj |-> obj, index |-> "", arg |-> "",
     ok |-> ok]
DeleteCall(table, index, arg, ok) ==
    [op |-> "Delete", table |-> table, obj |-> None, index |-> index,
     arg |-> arg, ok |-> ok]

\* the value of noop after the call op on t
Called(op, t) == IF Open(txns[t]) THEN noop ELSE op

\* ----------------------------------------------------------- txn.go 27-68
\* readableIndex that does not look for an existing modified transaction
readableIndex_RootOnly(txn, table, index) ==
    IF txn.rootTxn.nil
    THEN [panic |-> TRUE, tree |-> EmptyTree, txn |-> txn]
    ELSE [panic |-> FALSE, tree |-> txn.rootTxn.tree[indexPath(table, index)],
          txn |-> txn]

\* readableIndex reading the index from the current root of the DB
readableIndex_FromDB(txn, table, index) ==
    LET key == tableIndex(table, index) IN
    IF txn.write /\ ~txn.modified.nil /\ key \in DOMAIN txn.modified.m
    THEN [panic |-> FALSE, tree |-> txn.modified.m[key], txn |-> txn]
    ELSE IF txn.rootTxn.nil
    THEN [panic |-> TRUE, tree |-> EmptyTree, txn |-> txn]
    ELSE [panic |-> FALSE, tree |-> root[indexPath(table, index)], txn |-> txn]

\* readableIndex keeping the transaction it starts for a writer in modified
readableIndex_Keeps(txn, table, index) ==
    LET key == tableIndex(table, index) IN
    IF txn.write /\ ~txn.modified.nil /\ key \in DOMAIN txn.modified.m
    THEN [panic |-> FALSE, tree |-> txn.modified.m[key], txn |-> txn]
    ELSE IF txn.rootTxn.nil
    THEN [panic |-> TRUE, tree |-> EmptyTree, txn |-> txn]
    ELSE [panic |-> FALSE, tree |-> txn.rootTxn.tree[indexPath(table, index)],
          txn |-> IF ~txn.write THEN txn
                  ELSE [txn EXCEPT !.modified =
                      Map([x \in (DOMAIN (IF @.nil THEN <<>> ELSE @.m))
                                     \cup {key} |->
                          IF x = key
                          THEN txn.rootTxn.tree[indexPath(table, index)]
                          ELSE @.m[x]])]]

\* readableIndex: the radix transaction First reads the index through, as
\* the tree it reads, and the Txn as the call leaves it.  A nil rootTxn is
\* dereferenced when no modified transaction exists.
readableIndex(txn, table, index) ==
    LET key == tableIndex(table, index) IN
    IF txn.write /\ ~txn.modified.nil /\ key \in DOMAIN txn.modified.m
    THEN [panic |-> FALSE, tree |-> txn.modified.m[key], txn |-> txn]
    ELSE IF txn.rootTxn.nil
    THEN [panic |-> TRUE, tree |-> EmptyTree, txn |-> txn]
    ELSE [panic |-> FALSE, tree |-> txn.rootTxn.tree[indexPath(table, index)],
          txn |-> txn]

\* writableIndex that does not look for an existing transaction of the index
writableIndex_AlwaysNew(txn, table, index) ==
    LET m == IF txn.modified.nil THEN <<>> ELSE txn.modified.m
        key == tableIndex(table, index)
    IN  IF txn.rootTxn.nil
        THEN [panic |-> TRUE, txn |-> [txn EXCEPT !.modified = Map(m)]]
        ELSE [panic |-> FALSE,
              txn |-> [txn EXCEPT !.modified =
                  Map([x \in (DOMAIN m) \cup {key} |->
                      IF x = key THEN txn.rootTxn.tree[indexPath(table, index)]
                      ELSE m[x]])]]

\* writableIndex starting the transaction of an index from an empty tree
writableIndex_FromEmpty(txn, table, index) ==
    LET m == IF txn.modified.nil THEN <<>> ELSE txn.modified.m
        key == tableIndex(table, index)
    IN  IF key \in DOMAIN m
        THEN [panic |-> FALSE, txn |-> [txn EXCEPT !.modified = Map(m)]]
        ELSE IF txn.rootTxn.nil
        THEN [panic |-> TRUE, txn |-> [txn EXCEPT !.modified = Map(m)]]
        ELSE [panic |-> FALSE,
              txn |-> [txn EXCEPT !.modified =
                  Map([x \in (DOMAIN m) \cup {key} |->
                      IF x = key THEN EmptyTree ELSE m[x]])]]

\* writableIndex: the map is made if nil, an existing transaction of the
\* index is reused, otherwise one is started from the index's tree in the
\* root and kept in the map.  The result is the Txn as the call leaves it.
writableIndex(txn, table, index) ==
    LET m == IF txn.modified.nil THEN <<>> ELSE txn.modified.m
        key == tableIndex(table, index)
    IN  IF key \in DOMAIN m
        THEN [panic |-> FALSE, txn |-> [txn EXCEPT !.modified = Map(m)]]
        ELSE IF txn.rootTxn.nil
        THEN [panic |-> TRUE, txn |-> [txn EXCEPT !.modified = Map(m)]]
        ELSE [panic |-> FALSE,
              txn |-> [txn EXCEPT !.modified =
                  Map([x \in (DOMAIN m) \cup {key} |->
                      IF x = key THEN txn.rootTxn.tree[indexPath(table, index)]
                      ELSE m[x]])]]

\* --------------------------------------------------------- txn.go 134-151
\* an insert that keeps the record already stored under the key
IndexInsert_KeepFirst(txn, table, name, val, obj) ==
    [txn EXCEPT !.modified =
        Map([@.m EXCEPT ![tableIndex(table, name)] =
            IF val \in DOMAIN @ THEN @ ELSE TreeInsert(@, val, obj)])]

\* indexTxn.Insert(val, obj) on the radix transaction of (table, name)
IndexInsert(txn, table, name, val, obj) ==
    [txn EXCEPT !.modified =
        Map([@.m EXCEPT ![tableIndex(table, name)] = TreeInsert(@, val, obj)])]

\* the loop of Insert returning the error for a missing value whether or
\* not the index allows a missing value
RECURSIVE InsertLoop_MissingFails(_, _, _, _, _)
InsertLoop_MissingFails(txn, table, obj, order, i) ==
    IF i > Len(order) THEN [res |-> "ok", txn |-> txn]
    ELSE
      LET name == order[i]
          fo == FromObject(name, obj)
      IN  IF fo.err THEN [res |-> "build_failed", txn |-> txn]
          ELSE IF ~fo.ok THEN [res |-> "missing_value", txn |-> txn]
          ELSE
            LET w == writableIndex(txn, table, name) IN
            IF w.panic THEN [res |-> "panic", txn |-> w.txn]
            ELSE InsertLoop_MissingFails(
                     IndexInsert(w.txn, table, name, fo.val, obj),
                     table, obj, order, i + 1)

\* The loop of Insert over tableSchema.Indexes, visited in the order given
\* (Go ranges over a map in an unspecified order), from position i on.
RECURSIVE InsertLoop(_, _, _, _, _)
InsertLoop(txn, table, obj, order, i) ==
    IF i > Len(order) THEN [res |-> "ok", txn |-> txn]
    ELSE
      LET name == order[i]
          indexSchema == Schema.Tables[table].Indexes[name]
          fo == FromObject(name, obj)
      IN  IF fo.err THEN [res |-> "build_failed", txn |-> txn]
          ELSE IF ~fo.ok
          THEN IF indexSchema.AllowMissing
               THEN InsertLoop(txn, table, obj, order, i + 1)
               ELSE [res |-> "missing_value", txn |-> txn]
          ELSE
            LET w == writableIndex(txn, table, name) IN
            IF w.panic THEN [res |-> "panic", txn |-> w.txn]
            ELSE InsertLoop(IndexInsert(w.txn, table, name, fo.val, obj),
                            table, obj, order, i + 1)

\* all orders in which a range over the set S can visit it
RECURSIVE Perms(_)
Perms(S) ==
    IF S = {} THEN {<<>>}
    ELSE UNION {{<<x>> \o p : p \in Perms(S \ {x})} : x \in S}

Orders(table) ==
    IF table \in DOMAIN Schema.Tables
    THEN Perms(DOMAIN Schema.Tables[table].Indexes)
    ELSE {<<>>}

\* --------------------------------------------------------- txn.go 120-152
\* Insert without the check for a read transaction
InsertOutcome_NoWriteCheck(txn, table, obj, order) ==
    IF table \notin DOMAIN Schema.Tables
    THEN [res |-> "invalid_table", txn |-> txn]
    ELSE InsertLoop(txn, table, obj, order, 1)

\* Txn.Insert: the error returned and the Txn as the call leaves it
InsertOutcome(txn, table, obj, order) ==
    IF ~txn.write THEN [res |-> "read_only", txn |-> txn]
    ELSE IF table \notin DOMAIN Schema.Tables
    THEN [res |-> "invalid_table", txn |-> txn]
    ELSE InsertLoop(txn, table, obj, order, 1)

\* the outcomes of Insert over the orders the range may take
InsertOutcomes(txn, table, obj) ==
    {InsertOutcome(txn, table, obj, order) : order \in Orders(table)}

Insert(t, table, obj) ==
    /\ ~fatal /\ pc[t] = "ready" /\ Calls < MaxCalls
    /\ \E out \in InsertOutcomes(txns[t], table, obj) :
       /\ txns' = [txns EXCEPT ![t] = out.txn]
       /\ log' = [log EXCEPT ![t] =
              IF Logs(t, table)
              THEN Append(@, InsertCall(table, obj, out.res = "ok"))
              ELSE @]
    /\ ops' = ops + 1
    /\ noop' = Called("Insert", t)
    /\ UNCHANGED <<root, writer, fatal, pc, holders, unlocks, captured,
                   committed,
                   acquired, published>>

\* --------------------------------------------------------- txn.go 154-159
\* Txn.Delete: the error returned and the Txn as the call leaves it
DeleteOutcome(txn, table, index, args) ==
    IF ~txn.write THEN [res |-> "read_only", txn |-> txn]
    ELSE [res |-> "ok", txn |-> txn]

Delete(t, table, index, args) ==
    /\ ~fatal /\ pc[t] = "ready" /\ Calls < MaxCalls
    /\ LET out == DeleteOutcome(txns[t], table, index, args) IN
       /\ txns' = [txns EXCEPT ![t] = out.txn]
       /\ log' = [log EXCEPT ![t] =
              IF Logs(t, table)
              THEN Append(@, DeleteCall(table, index, args[1],
                                        out.res = "ok"))
              ELSE @]
    /\ ops' = ops + 1
    /\ noop' = Called("Delete", t)
    /\ UNCHANGED <<root, writer, fatal, pc, holders, unlocks, captured,
                   committed,
                   acquired, published>>

\* --------------------------------------------------------- txn.go 161-191
\* Txn.First: the error and object returned, the Txn as the call leaves it
FirstOutcome(txn, table, index, args) ==
    IF table \notin DOMAIN Schema.Tables
    THEN [res |-> "invalid_table", val |-> None, txn |-> txn]
    ELSE IF index \notin DOMAIN Schema.Tables[table].Indexes
    THEN [res |-> "invalid_index", val |-> None, txn |-> txn]
    ELSE
      LET fa == FromArgs(args) IN
      IF fa.err
      THEN [res |-> "index_error", val |-> None, txn |-> txn]
      ELSE
        LET indexTxn == readableIndex(txn, table, index) IN
        IF indexTxn.panic
        THEN [res |-> "panic", val |-> None, txn |-> indexTxn.txn]
        ELSE [res |-> "ok", val |-> TreeGet(indexTxn.tree, fa.val).obj,
              txn |-> indexTxn.txn]

\* the value of noop after a First on t with the outcome out
Looked(t, out) ==
    IF Open(txns[t]) /\ txns[t].modified.nil
       /\ out.res = "ok" /\ out.val = None
    THEN "First" ELSE noop

First(t, table, index, args) ==
    /\ ~fatal /\ pc[t] = "ready"
    /\ LET out == FirstOutcome(txns[t], table, index, args) IN
       /\ txns' = [txns EXCEPT ![t] = out.txn]
       /\ noop' = Looked(t, out)
    /\ UNCHANGED <<root, writer, fatal, pc, ops, holders, unlocks, captured,
                   log, committed, acquired, published>>

\* --------------------------------------------------------- txn.go 197-199
\* Txn.Get returns a nil iterator and a nil error: the records a caller
\* obtains from it, and the Txn as the call leaves it
GetOutcome(txn, table, index, args) ==
    [res |-> "ok", records |-> <<>>, txn |-> txn]

Get(t, table, index, args) ==
    /\ ~fatal /\ pc[t] = "ready"
    /\ txns' = [txns EXCEPT ![t] = GetOutcome(@, table, index, args).txn]
    /\ UNCHANGED <<root, writer, fatal, pc, hist>>

\* ------------------------------------------------------------ sync.Mutex
\* db.writer.Unlock() called by t: unlocking an unlocked mutex is fatal
UnlockWriter(t) ==
    /\ writer' = FALSE
    /\ fatal' = ~writer
    /\ holders' = holders \ {t}
    /\ unlocks' = [unlocks EXCEPT ![t] = @ + 1]


\* ----------------------------------------------------------- txn.go 71-88
\* Abort without the check for a read transaction
AbortReturnsEarly_NoReadCheck(txn) == txn.rootTxn.nil

\* Abort without the check of the sentinel
AbortReturnsEarly_NoSentinel(txn) == ~txn.write

\* the checks of Abort: a read transaction, or already aborted or committed
AbortReturnsEarly(txn) == ~txn.write \/ txn.rootTxn.nil

\* Abort that clears the transaction and leaves the writer lock held
Abort_NoUnlock(t) ==
    /\ ~fatal /\ pc[t] = "ready"
    /\ IF AbortReturnsEarly(txns[t])
       THEN UNCHANGED txns
       ELSE txns' = [txns EXCEPT ![t].rootTxn = NilTxn,
                                 ![t].modified = NilMap]
    /\ noop' = Called("Abort", t)
    /\ UNCHANGED <<root, writer, fatal, pc, ops, holders, unlocks, captured,
                   log, committed,
                   acquired, published>>

Abort(t) ==
    /\ ~fatal /\ pc[t] = "ready"
    /\ IF AbortReturnsEarly(txns[t])
       THEN UNCHANGED <<writer, fatal, txns, holders, unlocks>>
       ELSE /\ txns' = [txns EXCEPT ![t].rootTxn = NilTxn,
                                    ![t].modified = NilMap]
            /\ UnlockWriter(t)
    /\ noop' = Called("Abort", t)
    /\ UNCHANGED <<root, pc, ops, captured, log, committed,
                   acquired, published>>

\* ---------------------------------------------------------- txn.go 91-117
\* Commit without the check for a read transaction
CommitReturnsEarly_NoReadCheck(txn) == txn.rootTxn.nil

\* the checks of Commit: a read transaction, or already aborted or committed
CommitReturnsEarly(txn) == ~txn.write \/ txn.rootTxn.nil

\* the loop of Commit leaving after the first sub-transaction it visits
FoldModified_FirstOnly(txn) ==
    IF txn.modified.nil \/ DOMAIN txn.modified.m = {} THEN txn
    ELSE LET key == CHOOSE k \in DOMAIN txn.modified.m : TRUE IN
         [txn EXCEPT !.rootTxn = RootTxn(
             [txn.rootTxn.tree EXCEPT ![indexPath(key.Table, key.Index)] =
                 txn.modified.m[key]])]

\* the loop of Commit: every sub-transaction of modified is committed and
\* its tree inserted at the index's path in the root transaction
FoldModified(txn) ==
    IF txn.modified.nil THEN txn
    ELSE [txn EXCEPT !.rootTxn = RootTxn([p \in DOMAIN txn.rootTxn.tree |->
            LET keys == {key \in DOMAIN txn.modified.m :
                            indexPath(key.Table, key.Index) = p}
            IN  IF keys # {} THEN txn.modified.m[CHOOSE key \in keys : TRUE]
                ELSE txn.rootTxn.tree[p]])]

\* Commit is called: it returns at once, or runs the loop over modified
Commit(t) ==
    /\ ~fatal /\ pc[t] = "ready"
    /\ IF CommitReturnsEarly(txns[t])
       THEN UNCHANGED <<pc, txns>>
       ELSE /\ pc' = [pc EXCEPT ![t] = "publish"]
            /\ txns' = [txns EXCEPT ![t] = FoldModified(@)]
    /\ noop' = Called("Commit", t)
    /\ UNCHANGED <<root, writer, fatal, ops, holders, unlocks, captured,
                   log, committed,
                   acquired, published>>

\* the root of the DB is updated and the txn cleared
CommitPublish(t) ==
    /\ ~fatal /\ pc[t] = "publish"
    /\ root' = txns[t].rootTxn.tree
    /\ txns' = [txns EXCEPT ![t].rootTxn = NilTxn, ![t].modified = NilMap]
    /\ pc' = [pc EXCEPT ![t] = "unlock"]
    /\ committed' = committed \o log[t]
    /\ published' = Append(published, t)
    /\ UNCHANGED <<writer, fatal, ops, noop, holders, unlocks,
                   captured, log, acquired>>

\* Commit returning after the update of the root without the Unlock
CommitUnlock_NoUnlock(t) ==
    /\ ~fatal /\ pc[t] = "unlock"
    /\ pc' = [pc EXCEPT ![t] = "ready"]
    /\ UNCHANGED <<root, writer, fatal, txns, hist>>

\* the writer lock is released and Commit returns
CommitUnlock(t) ==
    /\ ~fatal /\ pc[t] = "unlock"
    /\ UnlockWriter(t)
    /\ pc' = [pc EXCEPT ![t] = "ready"]
    /\ UNCHANGED <<root, txns, ops, noop, captured, log, committed,
                   acquired, published>>

Next ==
    \/ \E t \in Txns : BeginRead(t)
    \/ \E t \in Txns : BeginWrite(t)
    \/ \E t \in Txns : AcquireWrite(t)
    \/ \E t \in Txns, o \in Objects : \E tb \in InsertTables[o] :
          Insert(t, tb, o)
    \/ \E t \in Txns, q \in DeleteQueries : Delete(t, q[1], q[2], q[3])
    \/ \E t \in Txns, q \in Queries : First(t, q[1], q[2], q[3])
    \/ \E t \in Txns, q \in GetQueries : Get(t, q[1], q[2], q[3])
    \/ \E t \in Txns : Abort(t)
    \/ \E t \in Txns : Commit(t)
    \/ \E t \in Txns : CommitPublish(t)
    \/ \E t \in Txns : CommitUnlock(t)

Spec == Init /\ [][Next]_vars

\* the caller of an open write transaction ends it: Commit or Abort
Finish(t) == Open(txns[t]) /\ (Commit(t) \/ Abort(t))

\* a step by which a transaction gets or gives up the writer lock
Progress ==
    \E t \in Txns :
        \/ AcquireWrite(t)
        \/ Finish(t)
        \/ CommitPublish(t)
        \/ CommitUnlock(t)

\* Whenever some caller can take such a step, one of them does: Lock
\* returns to one of the waiting callers when the mutex is free, a Commit
\* that has begun runs to its end, and an open write transaction is
\* eventually committed or aborted by its caller.
Fairness == WF_vars(Progress)

FairSpec == Init /\ [][Next]_vars /\ Fairness

\* ------------------------------------------------------------------ views
\* the transaction t is between calls
Ready(t) == pc[t] = "ready"

\* the write transaction t has been committed or aborted
Closed(t) == pc[t] = "ready" /\ txns[t].write /\ txns[t].rootTxn.nil

\* the read transactions
Readers == {t \in Txns : pc[t] = "ready" /\ ~txns[t].write}

\* the record stored in the root r under the key that args encode
Lookup(r, table, index, args) ==
    TreeGet(r[indexPath(table, index)], FromArgs(args).val).obj

UniqueIndexes ==
    {n \in DOMAIN Schema.Tables["person"].Indexes :
        Schema.Tables["person"].Indexes[n].Unique}

\* the values the objects have under each index
KeysOf == [n \in {"id", "age", "email"} |->
    {FieldOf[o][n] : o \in Objects} \ {Missing, Bad}]

\* every transaction but those of S does not exist yet or waits for the lock
OnlyTxns(S) == \A u \in Txns \ S : pc[u] \in {"none", "waiting"}

\* ---------------------------------------------------------------- C1
\* C1: in every reachable state at most one write transaction is between
\* the return of its BeginWrite and the end of its Commit or Abort, the
\* mutex is locked for as long as one is, and at most one write transaction
\* is open: a second BeginWrite does not return before the first writer's
\* Commit or Abort has completed.
SingleWriter ==
    /\ Cardinality(holders) <= 1
    /\ holders # {} => writer
    /\ \A t \in Txns : Open(txns[t]) => t \in holders
    /\ \A t \in Txns : pc[t] \in {"publish", "unlock"} => t \in holders

\* a writer has inserted and holds the lock while another BeginWrite blocks
SingleWriterWitness ==
    \E a, b \in Txns :
        /\ a \in holders /\ Len(log[a]) > 0
        /\ pc[b] = "waiting"

\* ---------------------------------------------------------------- C2
\* C2: every First of a read transaction, on every index and key, returns
\* the record (or absence) that was in the root the transaction captured at
\* its creation, whatever writers have inserted or committed since.
SnapshotIsolation ==
    \A t \in Readers :
        \A n \in DOMAIN Schema.Tables["person"].Indexes : \A k \in KeysOf[n] :
            LET out == FirstOutcome(txns[t], "person", n, <<k>>) IN
            /\ out.res = "ok"
            /\ out.val = Lookup(captured[t], "person", n, <<k>>)

\* a reader whose snapshot lacks a record that a writer has committed since
SnapshotIsolationWitness ==
    \E t \in Readers :
        /\ Lookup(captured[t], "person", "id", <<"a">>) = None
        /\ Lookup(root, "person", "id", <<"a">>) = "A30"
        /\ FirstOutcome(txns[t], "person", "id", <<"a">>).val = None

\* ---------------------------------------------------------------- C3
\* C3: a write transaction releases the writer lock at most once, exactly
\* once when it is closed, the mutex is never unlocked while unlocked, and a
\* Commit or Abort on a closed write transaction changes neither the root,
\* nor the lock, nor who holds it.
ReleasedOnce ==
    /\ ~fatal
    /\ \A t \in Txns : unlocks[t] <= 1
    /\ \A t \in Txns : Closed(t) => unlocks[t] = 1

SecondEndIsNoop ==
    \A t \in Txns :
        Closed(t) /\ (Commit(t) \/ Abort(t)) =>
            UNCHANGED <<root, writer, fatal, holders, unlocks, txns,
                        committed>>

IdempotentTermination == []ReleasedOnce /\ [][SecondEndIsNoop]_vars

\* a closed write transaction on which Commit or Abort was called again,
\* while another writer holds the lock
IdempotentTerminationWitness ==
    \E t, u \in Txns :
        /\ Closed(t) /\ unlocks[t] = 1
        /\ Open(txns[u]) /\ holders = {u} /\ writer
        /\ OnlyTxns({t, u})
        /\ noop \in {"Commit", "Abort"}

\* ------------------------------------------------------- the call history
\* what a transaction begun now would be
FreshRead == NewTxn(FALSE)
FreshWrite == NewTxn(TRUE)

PersonIndexes == DOMAIN Schema.Tables["person"].Indexes

\* the trees txn reads the indexes of person through
TxnView(txn) == [n \in PersonIndexes |-> readableIndex(txn, "person", n).tree]

\* the call e is an Insert of an object whose key under index n is k
Touches(e, n, k) ==
    e.op = "Insert" /\ e.table = "person" /\ FieldOf[e.obj][n] = k

\* the position in s of the last Insert call under the key k of index n,
\* or 0
LastTouch(s, n, k) ==
    LET I == {i \in 1..Len(s) : Touches(s[i], n, k)} IN
    IF I = {} THEN 0 ELSE CHOOSE i \in I : \A j \in I : j <= i

\* the last Insert call of s under the key k of n succeeded, and no Delete
\* was called after it
StillStored(s, n, k) ==
    LET i == LastTouch(s, n, k) IN
    /\ i > 0
    /\ s[i].ok
    /\ \A j \in (i + 1)..Len(s) : s[j].op # "Delete"

\* s holds successful Insert calls only
AllInserted(s) == \A i \in 1..Len(s) : s[i].op = "Insert" /\ s[i].ok

\* ---------------------------------------------------------------- C4
\* C4: an Insert that fails on an open write transaction leaves the tree
\* the transaction reads every index through as it was before the call.
FailedInsertChangesNothing ==
    \A t \in Txns, o \in Objects :
        (/\ Open(txns[t])
         /\ Insert(t, "person", o)
         /\ ~log'[t][Len(log'[t])].ok)
        => TxnView(txns'[t]) = TxnView(txns[t])

InsertAtomicity == [][FailedInsertChangesNothing]_vars

\* ---------------------------------------------------------------- C5
\* C5: when the last Insert call under a key of a unique index succeeded
\* and no Delete followed, First with that key returns the inserted object:
\* in the inserting transaction while it is open, and, once committed, in a
\* transaction begun now.
RoundTripIn(s, txn) ==
    \A n \in UniqueIndexes : \A k \in KeysOf[n] :
        StillStored(s, n, k) =>
            LET out == FirstOutcome(txn, "person", n, <<k>>) IN
            out.res = "ok" /\ out.val = s[LastTouch(s, n, k)].obj

RoundTrip ==
    /\ \A t \in Txns : Open(txns[t]) => RoundTripIn(log[t], txns[t])
    /\ RoundTripIn(committed, FreshRead)
    /\ RoundTripIn(committed, FreshWrite)

\* a committed Insert of A30 that a new transaction reads back, and an open
\* writer that reads back its own uncommitted Insert of B30
RoundTripWitness ==
    \E t \in Txns :
        /\ committed = <<InsertCall("person", "A30", TRUE)>>
        /\ FirstOutcome(FreshRead, "person", "id", <<"a">>).val = "A30"
        /\ Open(txns[t]) /\ pc[t] = "ready"
        /\ log[t] = <<InsertCall("person", "B30", TRUE)>>
        /\ FirstOutcome(txns[t], "person", "id", <<"b">>).val = "B30"
        /\ FirstOutcome(FreshRead, "person", "id", <<"b">>).val = None

\* ---------------------------------------------------------------- C6
\* C6: after Insert(obj) and Commit in one write transaction and Delete(obj)
\* and Commit in the next, First returns absent on every index that indexed
\* obj, in a transaction begun now.
DeleteRemoves ==
    \A t, u \in Txns, o \in Objects :
        (/\ Closed(t) /\ Closed(u)
         /\ log[t] = <<InsertCall("person", o, TRUE)>>
         /\ log[u] = <<DeleteCall("person", "id", FieldOf[o]["id"], TRUE)>>
         /\ committed = log[t] \o log[u])
        => \A n \in PersonIndexes :
              FromObject(n, o).ok =>
                  FirstOutcome(FreshRead, "person", n,
                               <<FieldOf[o][n]>>).val = None

\* ---------------------------------------------------------------- C7
\* C7: when an open write transaction is aborted, whatever it inserted, the
\* root is the one the transaction captured when it began, the writer lock
\* is free and nothing is added to what is committed, so that a transaction
\* begun afterwards reads what the aborted one captured.
AbortLeavesRoot ==
    \A t \in Txns :
        Open(txns[t]) /\ pc[t] = "ready" /\ Abort(t) =>
            /\ root' = captured[t]
            /\ ~writer' /\ holders' = {} /\ ~fatal'
            /\ committed' = committed

AbortDiscards == [][AbortLeavesRoot]_vars

\* an aborted writer whose Insert of A30 had succeeded: the lock is free
\* and a transaction begun now does not find A30
AbortDiscardsWitness ==
    \E t \in Txns :
        /\ Closed(t)
        /\ log[t] = <<InsertCall("person", "A30", TRUE)>>
        /\ committed = <<>>
        /\ ~writer /\ root = captured[t]
        /\ FirstOutcome(FreshRead, "person", "id", <<"a">>).val = None

\* ---------------------------------------------------------------- C8
\* C8: on a read transaction every Insert and every Delete returns the
\* read-only error and leaves the transaction as it was, and the call
\* changes neither the root nor the writer lock.
ReadOnlyRejected ==
    \A t \in Readers :
        /\ \A tb \in TableNames, o \in Objects :
              InsertOutcomes(txns[t], tb, o) =
                  {[res |-> "read_only", txn |-> txns[t]]}
        /\ \A tb \in TableNames, n \in IndexNames, a \in ArgLists :
              DeleteOutcome(txns[t], tb, n, a) =
                  [res |-> "read_only", txn |-> txns[t]]

ReadOnlyCallChangesNothing ==
    \A t \in Txns :
        (/\ pc[t] = "ready" /\ ~txns[t].write
         /\ \/ \E tb \in TableNames, o \in Objects : Insert(t, tb, o)
            \/ \E q \in DeleteQueries : Delete(t, q[1], q[2], q[3]))
        => UNCHANGED <<root, writer, fatal, txns, holders, unlocks, log,
                       committed>>

ReadOnlyViolation == []ReadOnlyRejected /\ [][ReadOnlyCallChangesNothing]_vars

\* Insert or Delete was called on a read transaction: every other
\* transaction is an open writer, on which the call would not be recorded
ReadOnlyViolationWitness ==
    \E t \in Readers :
        /\ noop \in {"Insert", "Delete"}
        /\ \A u \in Txns \ {t} :
              pc[u] \in {"none", "waiting"} \/ Open(txns[u])

\* ---------------------------------------------------------------- C9
\* C9: when everything committed is a sequence of successful Inserts, First
\* on a unique index returns, in a transaction begun now, the object of the
\* last Insert under the key, and absent when there was none.
LastWriterWins ==
    AllInserted(committed) =>
        \A n \in UniqueIndexes : \A k \in KeysOf[n] :
            LET out == FirstOutcome(FreshRead, "person", n, <<k>>)
                i == LastTouch(committed, n, k)
            IN  /\ out.res = "ok"
                /\ out.val = IF i = 0 THEN None ELSE committed[i].obj

\* A30 and then A31 were inserted under the id a and committed
LastWriterWinsWitness ==
    /\ committed = <<InsertCall("person", "A30", TRUE),
                     InsertCall("person", "A31", TRUE)>>
    /\ FirstOutcome(FreshRead, "person", "id", <<"a">>).val = "A31"

\* ---------------------------------------------------------------- C10
\* C10: after A30 and B30, which differ in id and share the age 30, were
\* inserted and committed, Get on the index age with 30 yields both, in
\* insertion order, and A30 is still the first record under the shared key.
NonUniqueKeepsAll ==
    committed = <<InsertCall("person", "A30", TRUE),
                  InsertCall("person", "B30", TRUE)>>
    => /\ GetOutcome(FreshRead, "person", "age", <<"30">>).records
            = <<"A30", "B30">>
       /\ FirstOutcome(FreshRead, "person", "age", <<"30">>).val = "A30"

\* ---------------------------------------------------------------- C11
\* the transactions of the sequence s
Range(s) == {s[i] : i \in DOMAIN s}

\* the sub-transactions txn holds in modified, by (table, index)
ModifiedOf(txn) == IF txn.modified.nil THEN <<>> ELSE txn.modified.m

\* no transaction updates the root twice; while a Commit is between its
\* loop and the update of the root nothing of it is in the root, and from
\* the update to the Unlock the committing transaction holds the lock
PublishedOnce ==
    /\ \A i, j \in DOMAIN published : i # j => published[i] # published[j]
    /\ \A t \in Txns :
          pc[t] = "publish" =>
              /\ root = captured[t]
              /\ writer /\ holders = {t}
              /\ t \notin Range(published)
    /\ \A t \in Txns :
          pc[t] = "unlock" =>
              /\ writer /\ holders = {t}
              /\ published # <<>> /\ published[Len(published)] = t

\* the root changes only in the step of a Commit that updates it, taken by
\* the holder of the lock, and the new root then holds the tree of every
\* sub-transaction of modified and the captured tree of every other index
PublishIsWhole ==
    root' # root =>
        \E t \in Txns :
            /\ pc[t] = "publish" /\ pc'[t] = "unlock"
            /\ writer /\ writer' /\ holders = {t} /\ holders' = {t}
            /\ published' = Append(published, t)
            /\ \A key \in DOMAIN ModifiedOf(txns[t]) :
                  root'[indexPath(key.Table, key.Index)] =
                      ModifiedOf(txns[t])[key]
            /\ \A p \in Paths :
                  (\A key \in DOMAIN ModifiedOf(txns[t]) :
                      indexPath(key.Table, key.Index) # p)
                  => root'[p] = captured[t][p]

\* C11: a Commit of an open write transaction replaces the root once, in
\* one step taken while it holds the writer lock and before it unlocks,
\* and the new root holds the tree of every (table, index) of modified.
AtomicPublish == []PublishedOnce /\ [][PublishIsWhole]_vars

\* a Commit that has updated the root and not yet unlocked, after an Insert
\* that touched the indexes id and age: both are in the root
AtomicPublishWitness ==
    \E t \in Txns :
        /\ pc[t] = "unlock" /\ writer
        /\ log[t] = <<InsertCall("person", "A30", TRUE)>>
        /\ root # captured[t]
        /\ Lookup(root, "person", "id", <<"a">>) = "A30"
        /\ Lookup(root, "person", "age", <<"30">>) = "A30"

\* ---------------------------------------------------------------- C12
\* the position of t in the sequence s of distinct transactions
PosIn(s, t) == CHOOSE i \in DOMAIN s : s[i] = t

\* the roots were published in the order in which their transactions
\* acquired the lock, and an open write transaction has captured the root
\* the DB has now: the one the last Commit published, or the initial one
SerialWriters ==
    /\ Range(published) \subseteq Range(acquired)
    /\ \A i, j \in DOMAIN published :
          i < j => PosIn(acquired, published[i]) < PosIn(acquired, published[j])
    /\ \A t \in Txns : Open(txns[t]) => captured[t] = root

\* the step of a Commit that updates the root keeps every record of the
\* root under a key that no Insert call of the transaction used
PublishKeepsOthers ==
    \A t \in Txns :
        pc[t] = "publish" /\ pc'[t] = "unlock" =>
            \A n \in PersonIndexes : \A k \in KeysOf[n] :
                (\A i \in DOMAIN log[t] : ~Touches(log[t][i], n, k))
                => Lookup(root', "person", n, <<k>>) =
                       Lookup(root, "person", n, <<k>>)

\* C12: writers are serialized: the roots are published in the order of
\* lock acquisition, every open writer works on the root published last,
\* and a Commit keeps every record committed before under a key that the
\* committing transaction did not insert under.
NoLostUpdates == []SerialWriters /\ [][PublishKeepsOthers]_vars

\* two writers committed one after the other, A30 by the first and B30 by
\* the second: the root holds both
NoLostUpdatesWitness ==
    /\ Len(published) = 2 /\ ~writer
    /\ committed = <<InsertCall("person", "A30", TRUE),
                     InsertCall("person", "B30", TRUE)>>
    /\ log[published[1]] = <<InsertCall("person", "A30", TRUE)>>
    /\ Lookup(root, "person", "id", <<"a">>) = "A30"
    /\ Lookup(root, "person", "id", <<"b">>) = "B30"

\* ---------------------------------------------------------------- C13
\* the trees of the indexes of person in the root r
RootView(r) == [n \in PersonIndexes |-> r[indexPath("person", n)]]

\* every object stored under the index id has a key for every index that
\* does not allow a missing value, and that index has an entry at the key
ConsistentView(view) ==
    \A k \in DOMAIN view["id"] :
        \A n \in PersonIndexes :
            ~Schema.Tables["person"].Indexes[n].AllowMissing =>
                LET fo == FromObject(n, view["id"][k]) IN
                fo.ok /\ fo.val \in DOMAIN view[n]

\* C13: in the root and in the view of every open write transaction, each
\* record present under the primary index id has an entry in every index
\* of the table that does not allow a missing value.
CrossIndexConsistent ==
    /\ ConsistentView(RootView(root))
    /\ \A t \in Txns :
          Open(txns[t]) /\ pc[t] = "ready" => ConsistentView(TxnView(txns[t]))

\* ---------------------------------------------------------------- C14
\* while a write transaction stays open, a sub-transaction it holds in
\* modified stays there, and each of its entries stays as it is unless the
\* step is an Insert of the object now stored at the entry's key
ContextKept ==
    \A t \in Txns :
        Open(txns[t]) /\ Open(txns'[t]) =>
            \A key \in DOMAIN ModifiedOf(txns[t]) :
                /\ key \in DOMAIN ModifiedOf(txns'[t])
                /\ \A k \in DOMAIN ModifiedOf(txns[t])[key] :
                      /\ k \in DOMAIN ModifiedOf(txns'[t])[key]
                      /\ \/ ModifiedOf(txns'[t])[key][k] =
                                ModifiedOf(txns[t])[key][k]
                         \/ /\ Len(log'[t]) = Len(log[t]) + 1
                            /\ log'[t][Len(log'[t])].obj =
                                   ModifiedOf(txns'[t])[key][k]

\* First in an open write transaction, on an index that has a
\* sub-transaction in modified, returns what that sub-transaction holds
ContextRead ==
    \A t \in Txns :
        Open(txns[t]) /\ pc[t] = "ready" =>
            \A key \in DOMAIN ModifiedOf(txns[t]) :
                \A k \in KeysOf[key.Index] :
                    FirstOutcome(txns[t], key.Table, key.Index, <<k>>).val =
                        TreeGet(ModifiedOf(txns[t])[key], FromArgs(<<k>>).val).obj

\* C14: in a write transaction the sub-transaction of a (table, index) is
\* created once and used by every later Insert and First on that index, so
\* First returns the transaction's own uncommitted inserts.
ContextReused == []ContextRead /\ [][ContextKept]_vars

\* a writer that inserted A30 and then B30: the second Insert used the
\* sub-transactions of the first, and First finds A30, which is not in the
\* root
ContextReusedWitness ==
    \E t \in Txns :
        /\ Open(txns[t]) /\ pc[t] = "ready"
        /\ log[t] = <<InsertCall("person", "A30", TRUE),
                      InsertCall("person", "B30", TRUE)>>
        /\ FirstOutcome(txns[t], "person", "id", <<"a">>).val = "A30"
        /\ FirstOutcome(txns[t], "person", "id", <<"b">>).val = "B30"
        /\ Lookup(root, "person", "id", <<"a">>) = None

\* ---------------------------------------------------------------- C15
\* a read transaction keeps the root it captured and First can read it
ReaderUsable ==
    \A t \in Readers :
        /\ ~txns[t].rootTxn.nil /\ txns[t].rootTxn.tree = captured[t]
        /\ \A q \in Queries :
              FirstOutcome(txns[t], q[1], q[2], q[3]).res # "panic"

\* Commit or Abort called on a read transaction changes nothing
ReaderEndChangesNothing ==
    \A t \in Txns :
        (pc[t] = "ready" /\ ~txns[t].write /\ (Commit(t) \/ Abort(t)))
        => UNCHANGED <<root, writer, fatal, pc, txns, holders, unlocks,
                       committed, published>>

\* C15: Commit and Abort on a read transaction, however often they are
\* called, release no lock, also when a writer holds it, leave the root as
\* it is and leave the transaction's snapshot readable.
ReaderEndIsNoop == []ReaderUsable /\ [][ReaderEndChangesNothing]_vars

\* Commit or Abort was called on a read transaction while a writer held
\* the lock
ReaderEndIsNoopWitness ==
    \E t \in Readers : \E u \in Txns :
        /\ Open(txns[u]) /\ pc[u] = "ready" /\ writer /\ holders = {u}
        /\ OnlyTxns({t, u})
        /\ noop \in {"Commit", "Abort"}

\* ---------------------------------------------------------------- C16
\* the call returned an error to its caller
ReturnsError(res) == res \notin {"ok", "panic"}

\* C16: on a write transaction that has been committed or aborted, every
\* Insert and every First on a table and index of the schema returns an
\* error to the caller and leaves the transaction as it was.
UseAfterFinishReported ==
    \A t \in Txns :
        Closed(t) =>
            /\ \A o \in Objects :
                  \A out \in InsertOutcomes(txns[t], "person", o) :
                      ReturnsError(out.res) /\ out.txn = txns[t]
            /\ \A n \in PersonIndexes : \A k \in KeysOf[n] :
                  LET out == FirstOutcome(txns[t], "person", n, <<k>>) IN
                  ReturnsError(out.res) /\ out.txn = txns[t]

\* ---------------------------------------------------------------- C17
\* the outcome of First for the table, index and arguments given is the
\* error the lookups of the schema call for, or the record under the key
\* in the tree the transaction reads, None when the key is not stored
FirstAnswers(txn, table, index, args, out) ==
    IF table \notin DOMAIN Schema.Tables THEN out.res = "invalid_table"
    ELSE IF index \notin DOMAIN Schema.Tables[table].Indexes
    THEN out.res = "invalid_index"
    ELSE IF Len(args) # 1 THEN out.res = "index_error"
    ELSE IF txn.rootTxn.nil THEN out.res = "panic"
    ELSE /\ out.res = "ok"
         /\ LET tree == TxnView(txn)[index]
                key == FromArgs(args).val
            IN  out.val = IF key \in DOMAIN tree THEN tree[key] ELSE None

\* C17: First, in a read or a write transaction and whatever it returns,
\* leaves the transaction, its modified set included, as it was (it has no
\* access to the root or the lock); on a key that is not stored it returns
\* no record and no error.
FirstIsPure ==
    \A t \in Txns :
        pc[t] = "ready" =>
            \A tb \in TableNames, n \in IndexNames, a \in ArgLists :
                LET out == FirstOutcome(txns[t], tb, n, a) IN
                /\ out.txn = txns[t]
                /\ FirstAnswers(txns[t], tb, n, a, out)

\* an open write transaction that has touched no index called First for a
\* key that is not stored: it still has no modified set
FirstIsPureWitness ==
    \E t \in Txns :
        /\ noop = "First"
        /\ Open(txns[t]) /\ pc[t] = "ready" /\ txns[t].modified.nil
        /\ log[t] = <<>>
        /\ OnlyTxns({t})

\* ---------------------------------------------------------------- C18
\* the step of a Commit that updates the root keeps the captured tree of
\* every index without a sub-transaction in modified, and keeps the whole
\* captured root when no Insert of the transaction succeeded
PublishOnlyTouched ==
    \A t \in Txns :
        pc[t] = "publish" /\ pc'[t] = "unlock" =>
            /\ \A n \in PersonIndexes :
                  tableIndex("person", n) \notin DOMAIN ModifiedOf(txns[t])
                  => root'[indexPath("person", n)] =
                         captured[t][indexPath("person", n)]
            /\ (\A i \in DOMAIN log[t] :
                    ~(log[t][i].op = "Insert" /\ log[t][i].ok))
               => root' = captured[t]

\* C18: a Commit changes only the indexes the transaction inserted into,
\* and a transaction that commits without a successful Insert publishes a
\* root with the contents of the root it captured.
CommitTouchesOnlyInserted == [][PublishOnlyTouched]_vars

\* ---------------------------------------------------------------- C19
\* the mutex is locked only for a write transaction that is open or whose
\* Commit is about to unlock it
HeldByActive ==
    /\ ~fatal
    /\ writer <=> holders # {}
    /\ \A t \in holders : Open(txns[t]) \/ pc[t] = "unlock"

\* C19: the lock is never left held by a transaction that is no longer
\* open, and, when every open write transaction is eventually committed or
\* aborted, no caller waits in BeginWrite for ever: each one eventually
\* gets its transaction.
LockReleased ==
    /\ []HeldByActive
    /\ \A t \in Txns : []<>(pc[t] # "waiting")

\* transaction 1 called BeginWrite first and waited while transaction 2
\* held the lock; 2 has ended and 1 now holds the lock
LockReleasedWitness ==
    /\ acquired = <<2, 1>>
    /\ Closed(2)
    /\ Open(txns[1]) /\ pc[1] = "ready" /\ holders = {1}

\* ---------------------------------------------------------------- C20
\* the object has a value for every index that requires one, none of its
\* values fails to build, and it has no value for an index that allows it
SkipsOptional(o) ==
    /\ \A n \in PersonIndexes :
          /\ ~FromObject(n, o).err
          /\ FromObject(n, o).ok
                \/ Schema.Tables["person"].Indexes[n].AllowMissing
    /\ \E n \in PersonIndexes : ~FromObject(n, o).ok

\* C20: in an open write transaction, Insert of an object that has no
\* value for an index that allows a missing value succeeds, in every order
\* of the indexes; the object is then stored under its key in every index
\* it has a value for, and the index it has no value for is as before.
MissingSkipped ==
    \A t \in Txns :
        Open(txns[t]) /\ pc[t] = "ready" =>
            \A o \in {x \in Objects : SkipsOptional(x)} :
                \A out \in InsertOutcomes(txns[t], "person", o) :
                    /\ out.res = "ok"
                    /\ \A n \in PersonIndexes :
                          LET fo == FromObject(n, o) IN
                          IF fo.ok
                          THEN TreeGet(TxnView(out.txn)[n], fo.val).obj = o
                          ELSE TxnView(out.txn)[n] = TxnView(txns[t])[n]

\* a writer inserted A30, which has no email: the Insert succeeded, A30 is
\* under its id and its age, and the index email has no entry
MissingSkippedWitness ==
    \E t \in Txns :
        /\ Open(txns[t]) /\ pc[t] = "ready"
        /\ SkipsOptional("A30")
        /\ log[t] = <<InsertCall("person", "A30", TRUE)>>
        /\ TxnView(txns[t])["id"] = TreeInsert(EmptyTree, <<"a", NUL>>, "A30")
        /\ TxnView(txns[t])["age"] = TreeInsert(EmptyTree, <<"30", NUL>>, "A30")
        /\ TxnView(txns[t])["email"] = EmptyTree
        /\ tableIndex("person", "email") \notin DOMAIN ModifiedOf(txns[t])
====
